---- MODULE Spec2Model ----
(***************************************************************************)
(* A model of sdprlayers/layers/sdprlayer.py: the SDPRLayer constructor,   *)
(* its forward pass (symmetrization, external solve, tightness test,       *)
(* solution recovery, construction of the QCQP differentiator), the        *)
(* backward pass of DiffQCQP and get_nullspace, and of the optimization    *)
(* loops of sdprlayers/utils/stereo_tuner.py.                              *)
(*                                                                         *)
(* Numbers.  Matrices are tuples of rows with integer entries.  Caller     *)
(* matrices have even entries, so that the halving of make_symmetric is    *)
(* exact in the integers.  A float ratio a/b is kept as the record         *)
(* [num |-> a, den |-> b] with b >= 0 (b = 0 gives inf or nan, as numpy    *)
(* does); comparisons of ratios are made on the exact quotients.           *)
(*                                                                         *)
(* Python indices are 0-based: a constraint index i of the source is the   *)
(* element i + 1 of the corresponding tuple here.                          *)
(***************************************************************************)
EXTENDS Integers, Sequences, FiniteSets, TLC

VARIABLES
    constr_arg, \* the caller's constraint list object (passed to __init__)
    er_min_cfg, \* the module global ER_MIN as the caller has bound it
    layer,      \* the SDPRLayer object (status "none" before construction)
    call,       \* the record of the last forward call on the layer
    bwd,        \* the outcome of the last DiffQCQP.backward call
    tc,         \* input and output of a direct check_tightness call
    params_value, \* the .value of the CVXPY parameters of layer.problem
    thr,        \* the forward calls that threads are running on the layer
    ns,         \* input and output of a get_nullspace call
    tune,       \* the locals of a running tune_stereo_params_* call
    calls,      \* the records of all forward calls on the layer, in order
    bwds        \* per forward call, the outcome of its DiffQCQP.backward

vars ==
    <<constr_arg, er_min_cfg, layer, call, bwd, tc, params_value, thr, ns,
      tune, calls, bwds>>

(***************************************************************************)
(* Bounds of the model and program constants.                              *)
(***************************************************************************)
\* longest constraint list handed to the constructor
MaxConstr == 1
\* largest batch size of a forward call
MaxBatch == 2
\* largest dimension of a matrix handed directly to check_tightness
MaxEigDim == 3
\* Minimum Eigenvalue Ratio for Tightness Check (sdprlayer.py:32)
ER_MIN == 100000
\* dimension of the homogenized variable vector x
n_vars == 2

(***************************************************************************)
(* Matrix helpers (numpy / torch arithmetic on small integer matrices).    *)
(***************************************************************************)
Dim(X) == Len(X)

Abs(v) == IF v < 0 THEN -v ELSE v

\* X.transpose(-1, -2)
Transpose(X) == [i \in 1..Dim(X) |-> [j \in 1..Dim(X) |-> X[j][i]]]

IsSymmetric(X) == \A i \in 1..Dim(X) : \A j \in 1..Dim(X) : X[i][j] = X[j][i]

IsDiagonal(X) == \A i \in 1..Dim(X) : \A j \in 1..Dim(X) : i # j => X[i][j] = 0

Diag(X) == [i \in 1..Dim(X) |-> X[i][i]]

\* the diagonal matrix with the given diagonal
DiagMat(d) == [i \in 1..Len(d) |-> [j \in 1..Len(d) |-> IF i = j THEN d[i] ELSE 0]]

\* np.sort: the ascending rearrangement of a tuple of numbers
RECURSIVE SortAsc(_)
SortAsc(s) ==
    IF Len(s) <= 1 THEN s
    ELSE LET k == CHOOSE k \in 1..Len(s) : \A j \in 1..Len(s) : s[k] >= s[j]
             rest == [j \in 1..(Len(s) - 1) |-> IF j < k THEN s[j] ELSE s[j + 1]]
         IN  Append(SortAsc(rest), s[k])

\* np.linalg.eigvalsh: the eigenvalues of a symmetric matrix, ascending.
\* Exact for the two families the model uses: diagonal matrices (the
\* eigenvalues are the diagonal) and 2x2 matrices [[a, b], [b, a]]
\* (the eigenvalues are a - |b| and a + |b|).
eigvalsh(X) ==
    IF IsDiagonal(X) THEN SortAsc(Diag(X))
    ELSE <<X[1][1] - Abs(X[1][2]), X[1][1] + Abs(X[1][2])>>

\* the mutant of make_symmetric: the transpose is forgotten
make_symmetric_NoTranspose(X) ==
    [i \in 1..Dim(X) |-> [j \in 1..Dim(X) |-> (X[i][j] + X[i][j]) \div 2]]

\* make_symmetric: (X + X^T) / 2
make_symmetric(X) ==
    [i \in 1..Dim(X) |-> [j \in 1..Dim(X) |-> (X[i][j] + X[j][i]) \div 2]]

(***************************************************************************)
(* SDPRLayer.check_tightness                                               *)
(***************************************************************************)
\* the float comparison num / den > t for num >= 0, den >= 0, t >= 0
\* (x / 0 is inf for x > 0 and nan for x = 0; nan > t is false)
RatioGT(r, t) ==
    IF r.den = 0 THEN r.num > 0
    ELSE (r.num \div r.den > t) \/ (r.num \div r.den = t /\ r.num % r.den # 0)

\* the float comparison num / den >= t, likewise
RatioGE(r, t) ==
    IF r.den = 0 THEN r.num > 0 ELSE r.num \div r.den >= t

\* the mutant of check_tightness: the comparison is not strict
check_tightness_GE(X, ER_min) ==
    LET sorted_eigs == [k \in 1..Dim(X) |-> Abs(SortAsc(eigvalsh(X))[k])]
        ER == [num |-> sorted_eigs[Dim(X)], den |-> sorted_eigs[Dim(X) - 1]]
    IN  [tight |-> RatioGE(ER, ER_min), ER |-> ER]

\* sorted_eigs = abs(sort(eigvalsh(X))); ER = sorted_eigs[-1] / sorted_eigs[-2];
\* tight = ER > ER_min
check_tightness(X, ER_min) ==
    LET sorted_eigs == [k \in 1..Dim(X) |-> Abs(SortAsc(eigvalsh(X))[k])]
        ER == [num |-> sorted_eigs[Dim(X)], den |-> sorted_eigs[Dim(X) - 1]]
    IN  [tight |-> RatioGT(ER, ER_min), ER |-> ER]

\* SDPRLayer.extract_column: x = (X[0:, [0]] + X[[0], 0:].T) / 2
extract_column(X) == [i \in 1..Dim(X) |-> (X[i][1] + X[1][i]) \div 2]

\* SDPRLayer.recovery_map with method="column": extract_column on every element
recovery_map(Xs) == [b \in 1..Len(Xs) |-> extract_column(Xs[b])]

(***************************************************************************)
(* SDPRLayer.__init__                                                      *)
(*                                                                         *)
(* An entry of the constraint list is "None" (a parameter slot is asked    *)
(* for), "mat" (a fixed matrix) or "param" (a cp.Parameter object).  The   *)
(* objective argument is "None" or "mat".  use_dual is "True", "False" or  *)
(* "None".  With homogenize=True the caller passes n_vars - 1 and n_vars is *)
(* the dimension after line 95.                                            *)
(***************************************************************************)
\* the homogenization constraint matrix A_0 = e_0 e_0^T
A_0 == [i \in 1..n_vars |-> [j \in 1..n_vars |-> IF i = 1 /\ j = 1 THEN 1 ELSE 0]]

\* the value of a fixed constraint matrix handed to the constructor
FixedA == [i \in 1..n_vars |-> [j \in 1..n_vars |-> IF i = j THEN 0 ELSE 1]]

\* the value of a fixed objective matrix handed to the constructor
FixedQ == [i \in 1..n_vars |-> [j \in 1..n_vars |-> IF i = j THEN 2 ELSE 0]]

\* lines 115-132: every None entry is replaced, in the caller's list, by a
\* new cp.Parameter; the other entries stay
ReplaceNone(constraints) ==
    [i \in 1..Len(constraints) |->
        IF constraints[i] = "None" THEN "param" ELSE constraints[i]]

\* lines 100-122: the parameter list: the objective first (slot -1) when it
\* is None, then the 0-based index of every None entry of the list, in order
RECURSIVE ConstrParams(_, _)
ConstrParams(constraints, i) ==
    IF i > Len(constraints) THEN <<>>
    ELSE (IF constraints[i] = "None" THEN <<i - 1>> ELSE <<>>)
         \o ConstrParams(constraints, i + 1)

ParamList(constraints, objective) ==
    (IF objective = "None" THEN <<-1>> ELSE <<>>) \o ConstrParams(constraints, 1)

\* the mutant of BuildProblem: the test is on the truth of use_dual
BuildProblem_Truthy(N_constrs, use_dual) ==
    IF use_dual = "True"
    THEN [form |-> "dual", sense |-> "Maximize", variables |-> <<"y">>,
          n_y |-> N_constrs + 1, n_psd |-> 1, n_eq |-> 0]
    ELSE [form |-> "primal", sense |-> "Minimize", variables |-> <<"X">>,
          n_y |-> 0, n_psd |-> 1, n_eq |-> N_constrs + 1]

\* lines 134-163: "if use_dual is not None" builds the dual program
\* (y of N_constrs + 1 entries with rho = y[-1], maximize rho, one PSD
\* constraint LHS << Q), otherwise the primal one (PSD variable X, one trace
\* equality per constraint and one for A_0, minimize tr(Q X))
BuildProblem(N_constrs, use_dual) ==
    IF use_dual # "None"
    THEN [form |-> "dual", sense |-> "Maximize", variables |-> <<"y">>,
          n_y |-> N_constrs + 1, n_psd |-> 1, n_eq |-> 0]
    ELSE [form |-> "primal", sense |-> "Minimize", variables |-> <<"X">>,
          n_y |-> 0, n_psd |-> 1, n_eq |-> N_constrs + 1]

\* the mutant of InitStatus: the check of the parameter list is missing
InitStatus_NoCheck(params) == "ok"

\* line 168: assert len(params) > 0
InitStatus(params) == IF Len(params) > 0 THEN "ok" ELSE "AssertionError"

\* the layer before any construction
NoLayer ==
    [status |-> "none", homogenize |-> FALSE, use_dual |-> "None",
     diff_qcqp |-> FALSE, compute_multipliers |-> FALSE,
     redun_list |-> {}, objective |-> "mat", constr_list |-> <<>>,
     params |-> <<>>, problem |-> BuildProblem(0, "None")]

\* SDPRLayer.__init__: the object built, and the caller's list afterwards
SDPRLayer_init(constraints, objective, homogenize, use_dual, diff_qcqp, compute_multipliers, redun_list) ==
    LET params == ParamList(constraints, objective)
        constr_list == ReplaceNone(constraints)
    IN  [layer |->
            [status |-> InitStatus(params),
             homogenize |-> homogenize,
             use_dual |-> use_dual,
             diff_qcqp |-> diff_qcqp,
             compute_multipliers |-> compute_multipliers,
             redun_list |-> redun_list,
             objective |-> IF objective = "None" THEN "param" ELSE "mat",
             constr_list |-> constr_list,
             params |-> params,
             problem |-> BuildProblem(Len(constr_list), use_dual)],
         constr_list |-> constr_list]

(***************************************************************************)
(* DiffQCQP.forward (the context stored for the backward pass)             *)
(***************************************************************************)
\* no differentiator was constructed
NoCtx ==
    [built |-> FALSE, error |-> "", objective |-> <<>>, constraints |-> <<>>,
     param_dict |-> [objective |-> FALSE, constraints |-> <<>>],
     redundant_inds |-> {}, xs |-> <<>>, mults |-> <<>>, Hs |-> <<>>,
     compute_multipliers |-> FALSE]

\* the position in params of the parameterized constraint at position i
\* (param_ind of lines 490-507, counted from 1)
ParamIndOf(L, i) ==
    (IF L.objective = "param" THEN 1 ELSE 0)
    + Cardinality({j \in 1..i : L.constr_list[j] = "param"})

\* lines 486-528, called with constraints = self.constr_list + [self.A_0]
DiffQCQP_forward(L, params, xs, Hs, mults) ==
    LET kinds == Append(L.constr_list, "mat")
        n_used == (IF L.objective = "param" THEN 1 ELSE 0)
                  + Cardinality({j \in 1..Len(L.constr_list) :
                                    L.constr_list[j] = "param"})
        constraint_mats ==
            [i \in 1..Len(kinds) |->
                IF kinds[i] = "param"
                THEN [param |-> TRUE, vals |-> params[ParamIndOf(L, i)]]
                ELSE [param |-> FALSE,
                      vals |-> <<IF i = Len(kinds) THEN A_0 ELSE FixedA>>]]
    IN  [built |-> TRUE,
         error |-> IF n_used = Len(params) THEN "" ELSE "AssertionError",
         objective |-> IF L.objective = "param" THEN params[1] ELSE <<FixedQ>>,
         constraints |-> constraint_mats,
         param_dict |->
            [objective |-> (L.objective = "param"),
             constraints |-> ConstrParams(
                [i \in 1..Len(kinds) |->
                    IF kinds[i] = "param" THEN "None" ELSE "mat"], 1)],
         redundant_inds |-> L.redun_list,
         xs |-> xs, mults |-> mults, Hs |-> Hs,
         compute_multipliers |-> L.compute_multipliers]

(***************************************************************************)
(* SDPRLayer.forward                                                       *)
(*                                                                         *)
(* An input tensor is [ndim |-> 2 or 3, mats |-> the matrices along its    *)
(* leading dimension] (one matrix when ndim = 2).  kwargs is               *)
(* [has_solver_args, solve_method].  sol is what the solvers answer in     *)
(* this call: Xs (one X per batch element), y (the dual variables per      *)
(* element, N_constrs + 1 of them), Hs (the slack per element) and         *)
(* fail_at (the batch element whose MOSEK solve is not optimal, 0 for      *)
(* none); squeezed tells whether CvxpyLayer.forward, given parameter       *)
(* values that all lack a batch dimension, returns its solution without    *)
(* one.  A shape is the sequence of the sizes of a tensor's dimensions.    *)
(***************************************************************************)
\* the mutant of AllTight: only the first element of the batch is tested
AllTight_FirstOnly(Xs) == check_tightness(Xs[1], ER_MIN).tight

\* the mutant of AllTight: one tight element is enough
AllTight_Any(Xs) == \E b \in 1..Len(Xs) : check_tightness(Xs[b], ER_MIN).tight

\* lines 327-333 (and 360-366): alltight is the conjunction of the tight
\* flags; check_tightness is called with its default ER_min, which was bound
\* to ER_MIN = 1e5 when the function was defined (line 410)
AllTight(Xs) == \A b \in 1..Len(Xs) : check_tightness(Xs[b], ER_MIN).tight

\* the mutant of Truthy: every value but None passes
Truthy_NotNone(use_dual) == use_dual # "None"

\* the truth value Python gives use_dual in "assert self.use_dual"
Truthy(use_dual) == use_dual = "True"

\* the mutant of MosekSolves: the loop goes on after a solve that failed
MosekSolves_Continue(N_batch, fail_at) == [k \in 1..N_batch |-> k]

\* lines 267-286: the batch elements handed to self.problem.solve, in the
\* order of the calls: iBatch runs over range(N_batch) and the loop is left by
\* the raise of line 286 at the first solve whose status is not "optimal"
MosekSolves(N_batch, fail_at) ==
    [k \in 1..(IF fail_at = 0 THEN N_batch ELSE fail_at) |-> k]

\* a call that has not happened
NoCall ==
    [status |-> "none", error |-> "", er_min_cfg |-> 0, inputs |-> <<>>,
     kwargs |-> [has_solver_args |-> FALSE, solve_method |-> "none"],
     param_vals_h |-> <<>>, solves |-> <<>>, solve_status |-> <<>>,
     mosek_values |-> <<>>, cone_args |-> <<>>, Xs |-> <<>>,
     alltight |-> FALSE, x_none |-> TRUE, xs |-> <<>>,
     X_shape |-> <<>>, x_shape |-> <<>>, ctx |-> NoCtx]

\* lines 398-407: homog_matrix(F, fvec, f) = [[f, fvec^T / 2], [fvec / 2, F]]
homog_matrix(F, fvec, f) ==
    [i \in 1..(Dim(F) + 1) |-> [j \in 1..(Dim(F) + 1) |->
        IF i = 1 /\ j = 1 THEN f[1][1]
        ELSE IF i = 1 THEN fvec[j - 1][1] \div 2
        ELSE IF j = 1 THEN fvec[i - 1][1] \div 2
        ELSE F[i - 1][j - 1]]]

\* lines 203-230 (homogenize=True): the error of the first triplet
\* (mat, vec, const) that fails a check.  The three tensors of a triplet are
\* compared in ndim; a 3-D triplet is compared in batch size with N_batch,
\* which is assigned only when the first triplet is 3-D (ind == 0); a 2-D
\* triplet is compared with nothing
HomogError(L, inputs) ==
    IF Len(L.params) * 3 # Len(inputs)
    THEN "AssertionError: Expected 3 inputs per parameter"
    ELSE LET nd(t) == inputs[3 * t - 2].ndim
             Err(t) ==
                 IF inputs[3 * t - 1].ndim # nd(t) \/ inputs[3 * t].ndim # nd(t)
                 THEN "AssertionError: Inputs must be 2 or 3 dimensional"
                 ELSE IF nd(t) > 2 /\ nd(1) <= 2
                 THEN "UnboundLocalError: N_batch"
                 ELSE IF nd(t) > 2 /\ \E k \in 0..2 :
                         Len(inputs[3 * t - k].mats) # Len(inputs[1].mats)
                 THEN "AssertionError: Inconsistent batch dimesion"
                 ELSE ""
             bad == {t \in 1..(Len(inputs) \div 3) : Err(t) # ""}
         IN  IF bad = {} THEN ""
             ELSE Err(CHOOSE t \in bad : \A u \in bad : t <= u)

\* lines 206-230: one homogenized tensor per triplet, 3-D (torch.vmap of
\* homog_matrix) when the triplet is 3-D, 2-D otherwise
Homogenized(inputs) ==
    [t \in 1..(Len(inputs) \div 3) |->
        [ndim |-> inputs[3 * t - 2].ndim,
         mats |-> [b \in 1..Len(inputs[3 * t - 2].mats) |->
                     homog_matrix(inputs[3 * t - 2].mats[b],
                                  inputs[3 * t - 1].mats[b],
                                  inputs[3 * t].mats[b])]]]

\* the mutant of Squeeze0: the leading dimension stays
Squeeze0_Keep(shape) == shape

\* lines 376-377: squeeze(0) drops the leading dimension when its size is 1
Squeeze0(shape) == IF shape[1] = 1 THEN Tail(shape) ELSE shape

\* lines 231-252: the checks of the dimensions, then make_symmetric on every
\* parameter value
DimsError(inputs) ==
    LET ndims == inputs[1].ndim
        N_batch == IF ndims > 2 THEN Len(inputs[1].mats) ELSE 1
    IN  IF \E i \in 1..Len(inputs) : inputs[i].ndim # ndims
        THEN "AssertionError: Parameter dimensions inconsistent"
        ELSE IF ndims > 2 /\ \E i \in 1..Len(inputs) : Len(inputs[i].mats) # N_batch
        THEN "AssertionError: Inconsistent batch dimension"
        ELSE ""

Symmetrized(inputs) ==
    [i \in 1..Len(inputs) |->
        [b \in 1..Len(inputs[i].mats) |-> make_symmetric(inputs[i].mats[b])]]

\* lines 267-273: the values given to the CVXPY parameters before the solve
\* of batch element iBatch: parameters[iParam].value = param_vals_h[i][iBatch],
\* where i is the variable left by the loop of line 240 (its last index)
MosekValues(L, param_vals_h, iBatch) ==
    LET i == Len(param_vals_h)
    IN  [iParam \in 1..Len(L.params) |-> param_vals_h[i][iBatch]]

\* the whole of forward
ForwardOutcome(L, inputs, kwargs, sol, cfg) ==
    LET dims_error == IF L.homogenize THEN HomogError(L, inputs)
                      ELSE DimsError(inputs)
        \* ndims is left by line 212 (the last triplet) or line 235
        ndims == IF L.homogenize THEN inputs[Len(inputs) - 2].ndim
                 ELSE inputs[1].ndim
        \* N_batch is assigned by line 219 or by lines 236-239
        N_batch_set == ~L.homogenize \/ inputs[1].ndim > 2
        N_batch == IF inputs[1].ndim > 2 THEN Len(inputs[1].mats) ELSE 1
        \* line 249 gives every 2-D value a batch dimension; line 228 does not
        batched == ~L.homogenize \/ \E k \in 1..Len(inputs) : inputs[k].ndim > 2
        param_vals_h == Symmetrized(IF L.homogenize THEN Homogenized(inputs)
                                    ELSE inputs)
        is_mosek == kwargs.has_solver_args /\ kwargs.solve_method = "mosek"
        solves == MosekSolves(N_batch, sol.fail_at)
        base == [NoCall EXCEPT !.er_min_cfg = cfg, !.inputs = inputs,
                               !.kwargs = kwargs]
        sym == [base EXCEPT !.param_vals_h = param_vals_h]
        mosek == IF is_mosek
                 THEN [sym EXCEPT
                          !.solves = solves,
                          !.solve_status =
                              [k \in 1..Len(solves) |->
                                  IF solves[k] = sol.fail_at
                                  THEN "infeasible" ELSE "optimal"],
                          !.mosek_values =
                              [k \in 1..Len(solves) |->
                                  MosekValues(L, param_vals_h, solves[k])]]
                 ELSE sym
        cone == [mosek EXCEPT !.cone_args = param_vals_h, !.Xs = sol.Xs]
        solved == [cone EXCEPT !.alltight = AllTight(sol.Xs)]
        xs == recovery_map(sol.Xs)
        mults == [b \in 1..Len(sol.Xs) |->
                     [k \in 1..Len(sol.y[b]) |-> -sol.y[b][k]]]
        ctx == DiffQCQP_forward(L, param_vals_h, xs, sol.Hs, mults)
        \* lines 373-377
        X_shape == IF ndims < 3 THEN Squeeze0(<<Len(sol.Xs), n_vars, n_vars>>)
                   ELSE <<Len(sol.Xs), n_vars, n_vars>>
        x_shape == IF ndims < 3 THEN Squeeze0(<<Len(sol.Xs), n_vars, 1>>)
                   ELSE <<Len(sol.Xs), n_vars, 1>>
        with_x == [solved EXCEPT !.status = "returned", !.x_none = FALSE,
                                 !.xs = xs, !.X_shape = X_shape,
                                 !.x_shape = x_shape]
        without_x == [solved EXCEPT !.status = "returned", !.X_shape = X_shape]
    IN  IF dims_error # ""
        THEN [base EXCEPT !.status = "error", !.error = dims_error]
        ELSE IF is_mosek /\ ~Truthy(L.use_dual)
        THEN [sym EXCEPT !.status = "error",
                         !.error = "AssertionError: Primal not implemented"]
        ELSE IF is_mosek /\ ~N_batch_set
        THEN [sym EXCEPT !.status = "error",
                         !.error = "UnboundLocalError: N_batch"]
        ELSE IF is_mosek /\ L.homogenize
        THEN [sym EXCEPT !.status = "error", !.error = "UnboundLocalError: i"]
        ELSE IF is_mosek /\ sol.fail_at # 0
        THEN [mosek EXCEPT !.status = "error",
                           !.error = "ValueError: MOSEK did not converge"]
        ELSE IF L.diff_qcqp /\ ~kwargs.has_solver_args
        THEN [mosek EXCEPT !.status = "error", !.error = "KeyError: solver_args"]
        ELSE IF ~batched /\ sol.squeezed
        THEN [cone EXCEPT !.status = "error",
                          !.error = "LinAlgError: 1-dimensional array given"]
        ELSE IF L.diff_qcqp
        THEN IF AllTight(sol.Xs)
             THEN IF ctx.error # ""
                  THEN [solved EXCEPT !.status = "error", !.error = ctx.error]
                  ELSE [with_x EXCEPT !.ctx = ctx]
             ELSE without_x
        ELSE IF AllTight(sol.Xs) THEN with_x ELSE without_x

(***************************************************************************)
(* DiffQCQP.backward                                                       *)
(*                                                                         *)
(* adj[b] is the solution dy_bar that LSQR returns for batch element b:    *)
(* n_vars entries for x, then one entry per non-redundant constraint.      *)
(* lsq[b] is the solution res[0] that np.linalg.lstsq returns for batch    *)
(* element b when the multipliers are recomputed: one entry per            *)
(* non-redundant constraint (lsq is empty when they are not recomputed).   *)
(***************************************************************************)
\* ATOL_KKT = 1e-5 is 1 / ATOL_KKT_INV
ATOL_KKT_INV == 100000

\* the sum of the entries of a sequence of numbers
RECURSIVE SumSeq(_)
SumSeq(s) == IF s = <<>> THEN 0 ELSE Head(s) + SumSeq(Tail(s))

\* M @ x for a matrix M and a column x
MatVec(M, x) ==
    [i \in 1..Len(M) |-> SumSeq([j \in 1..Len(x) |-> M[i][j] * x[j]])]

\* lines 547-548, 559-562, 581-582: a value with a batch dimension is
\* indexed with b, a value without one is taken whole
ElemOf(vals, b) == IF Len(vals) = 1 THEN vals[1] ELSE vals[b]
\* the 0-based indices of ctx.constraints
ConstrInds(ctx) == 0..(Len(ctx.constraints) - 1)

\* the rows of G_r: the constraints not in ctx.redundant_inds (lines 546-552)
NonRedundant(ctx) == ConstrInds(ctx) \ ctx.redundant_inds

\* the mutant of dy_bar_2_of: a redundant index takes an entry of dy_bar too
dy_bar_2_of_NoZero(ctx, dy_bar, i) ==
    dy_bar[n_vars + Cardinality({j \in NonRedundant(ctx) : j < i}) + 1]

\* lines 606-615: the entry of dy_bar_2 for constraint i: 0.0 at a redundant
\* index, otherwise the next entry of dy_bar after the first n_vars
dy_bar_2_of(ctx, dy_bar, i) ==
    IF i \in ctx.redundant_inds THEN 0
    ELSE dy_bar[n_vars + Cardinality({j \in NonRedundant(ctx) : j < i}) + 1]

\* line 617: dH_bar = 2 * x @ dy_bar_1.T
dH_bar_of(x, dy_bar) ==
    [i \in 1..n_vars |-> [j \in 1..n_vars |-> 2 * x[i] * dy_bar[j]]]

\* the mutant of dA_quad_of: x @ dy_bar_1.T in place of x @ x.T
dA_quad_of_Mixed(x, dy_bar) ==
    [i \in 1..n_vars |-> [j \in 1..n_vars |-> x[i] * dy_bar[j]]]

\* line 619: dA_quad = x @ x.T (dy_bar is not read)
dA_quad_of(x, dy_bar) ==
    [i \in 1..n_vars |-> [j \in 1..n_vars |-> x[i] * x[j]]]

\* line 641: dA = dH_bar * mults[ind] + dA_quad * dy_bar_2[ind]
dA_of(ctx, x, dy_bar, mult, ind) ==
    [i \in 1..n_vars |-> [j \in 1..n_vars |->
        dH_bar_of(x, dy_bar)[i][j] * mult
        + dA_quad_of(x, dy_bar)[i][j] * dy_bar_2_of(ctx, dy_bar, ind)]]

\* lines 572-580: all_mults[i] is 0.0 at a redundant index, otherwise the next
\* entry of the lstsq solution
all_mults_of(ctx, mults, i) ==
    IF i \in ctx.redundant_inds THEN 0
    ELSE mults[Cardinality({j \in NonRedundant(ctx) : j < i}) + 1]

\* lines 571-584: H_r = Q + sum over the constraints of A_i * all_mults[i]
H_r_of(ctx, mults, b) ==
    LET Q == ElemOf(ctx.objective, b)
    IN  [r \in 1..n_vars |-> [c \in 1..n_vars |->
            Q[r][c]
            + SumSeq([i \in 1..Len(ctx.constraints) |->
                        ElemOf(ctx.constraints[i].vals, b)[r][c]
                        * all_mults_of(ctx, mults, i - 1)])]]

\* the square of the 2-norm of a vector
NormSq(v) == SumSeq([i \in 1..Len(v) |-> v[i] * v[i]])

\* line 585: np.linalg.norm(H_r @ x) < ATOL_KKT.  With integer entries
\* norm < 1 / ATOL_KKT_INV is NormSq * ATOL_KKT_INV^2 < 1, which is
\* NormSq * ATOL_KKT_INV < 1
KKTSatisfied(ctx, mults, b) ==
    NormSq(MatVec(H_r_of(ctx, mults, b), ctx.xs[b])) * ATOL_KKT_INV < 1

\* the mutant of KKTError: the residual is not tested
KKTError_Silent(ctx, lsq) == ""

\* lines 557-587: when the multipliers are recomputed, the assert of line 585
\* fails at the first batch element whose residual is not below ATOL_KKT
KKTError(ctx, lsq) ==
    IF ctx.compute_multipliers
       /\ \E b \in 1..Len(ctx.xs) : ~KKTSatisfied(ctx, lsq[b], b)
    THEN "AssertionError: KKT conditions cannot be satisfied"
    ELSE ""

\* numpy broadcasting of the shapes s and t, aligned at their last dimension;
\* the empty shape when they cannot be broadcast together
Broadcast(s, t) ==
    LET n == IF Len(s) > Len(t) THEN Len(s) ELSE Len(t)
        pad(u) == [k \in 1..n |-> IF k <= n - Len(u) THEN 1
                                  ELSE u[k - (n - Len(u))]]
    IN  IF \E k \in 1..n : pad(s)[k] # pad(t)[k] /\ pad(s)[k] # 1 /\ pad(t)[k] # 1
        THEN <<>>
        ELSE [k \in 1..n |-> IF pad(s)[k] = 1 THEN pad(t)[k] ELSE pad(s)[k]]

\* lines 588, 625-629: the shape of mults after mults[:, :, None].  np.stack
\* of ctx.mults is (B, m + 1); mult_list holds one [all_mults] per batch
\* element, a list of one list, so np.stack of it is (B, 1, m + 1)
MultsShape(ctx) ==
    IF ctx.compute_multipliers
    THEN <<Len(ctx.xs), 1, 1, Len(ctx.constraints)>>
    ELSE <<Len(ctx.xs), Len(ctx.constraints), 1>>

\* line 641: the shape of dH_bar * mults[:, [ind], :] + dA_quad *
\* dy_bar_2[:, [ind], :], the empty shape when the shapes do not broadcast
dA_shape(ctx, ind) ==
    LET B == Len(ctx.xs)
        sel == [MultsShape(ctx) EXCEPT ![2] = 1]
        first == Broadcast(<<B, n_vars, n_vars>>, sel)
    IN  IF first = <<>> THEN <<>>
        ELSE Broadcast(first, Broadcast(<<B, n_vars, n_vars>>, <<B, 1, 1>>))

\* line 641: the error of the expression for the constraint of index ind
MultsError(ctx, ind) ==
    IF ind + 1 > MultsShape(ctx)[2]
    THEN "IndexError: index out of bounds for axis 1"
    ELSE IF dA_shape(ctx, ind) = <<>>
    THEN "ValueError: operands could not be broadcast together"
    ELSE ""

\* line 641 with mults of shape (B, 1, 1, m + 1) and n_vars = m + 1: the
\* entry [b1, b2] of the result, dH_bar[b2] scaled in column j by
\* all_mults[j] of element b1, plus dA_quad[b2] * dy_bar_2[b2][ind]
dA_broadcast(ctx, adj, lsq, ind, b1, b2) ==
    [i \in 1..n_vars |-> [j \in 1..n_vars |->
        dH_bar_of(ctx.xs[b2], adj[b2])[i][j] * all_mults_of(ctx, lsq[b1], j - 1)
        + dA_quad_of(ctx.xs[b2], adj[b2])[i][j]
          * dy_bar_2_of(ctx, adj[b2], ind)]]

\* the mutant of GradError: a redundant parameterized constraint is let through
GradError_Silent(ctx) ==
    IF NonRedundant(ctx) = {}
    THEN "ValueError: need at least one array to concatenate"
    ELSE ""

\* line 554: np.vstack of an empty G_r raises; lines 635-639: a parameterized
\* constraint listed as redundant raises
GradError(ctx) ==
    IF NonRedundant(ctx) = {}
    THEN "ValueError: need at least one array to concatenate"
    ELSE IF \E k \in 1..Len(ctx.param_dict.constraints) :
                ctx.param_dict.constraints[k] \in ctx.redundant_inds
    THEN "ValueError: Cannot compute derivative of redundant constraint"
    ELSE ""

\* line 549: c_grad = x.T @ A
c_grad(x, A) ==
    [j \in 1..n_vars |-> SumSeq([i \in 1..n_vars |-> x[i] * A[i][j]])]

\* lines 546-553: G, one row c_grad per constraint of batch element b
G_of(ctx, b) ==
    [i \in 1..Len(ctx.constraints) |->
        c_grad(ctx.xs[b], ElemOf(ctx.constraints[i].vals, b))]

\* the indices that are not redundant, in ascending order
NonRedundantSeq(ctx) ==
    [k \in 1..Cardinality(NonRedundant(ctx)) |->
        CHOOSE i \in NonRedundant(ctx) :
            Cardinality({j \in NonRedundant(ctx) : j < i}) = k - 1]

\* lines 551-554: G_r, the rows of G whose index is not in redundant_inds
G_r_of(ctx, b) ==
    [k \in 1..Len(NonRedundantSeq(ctx)) |->
        G_of(ctx, b)[NonRedundantSeq(ctx)[k] + 1]]

\* lines 650-673: the operator make_jac_linop(H, G, G_r) returns
make_jac_linop(H, G, G_r) ==
    [H |-> H, G |-> G, G_r |-> G_r,
     shape |-> <<Len(H) + Len(G_r), Len(H) + Len(G)>>]

\* 2 * np.vstack([H @ x1 + B.T @ x2, C @ x1]) for x = [x1; x2], x1 of nvars
\* entries, as [error, value]; B.T @ x2 raises when x2 has not one entry per
\* row of B
BlockProduct(H, B, C, x) ==
    LET nvars == Len(H)
        x1 == [j \in 1..nvars |-> x[j]]
        x2 == [j \in 1..(Len(x) - nvars) |-> x[nvars + j]]
    IN  IF Len(x2) # Len(B)
        THEN [error |-> "ValueError: matmul: mismatch in its core dimension",
              value |-> <<>>]
        ELSE [error |-> "",
              value |-> [r \in 1..(nvars + Len(C)) |->
                IF r <= nvars
                THEN 2 * (MatVec(H, x1)[r]
                          + SumSeq([k \in 1..Len(B) |-> B[k][r] * x2[k]]))
                ELSE 2 * MatVec(C, x1)[r - nvars]]]

\* lines 660-663: matvec(x) = 2 * vstack([H @ x1 + G.T @ x2, G_r @ x1])
matvec(M, x) == BlockProduct(M.H, M.G, M.G_r, x)

\* lines 666-669: rmatvec(x) = 2 * vstack([H @ x1 + G_r.T @ x2, G @ x1])
rmatvec(M, x) == BlockProduct(M.H, M.G_r, M.G, x)

\* lines 557-599: the operator built for batch element b: from H_r and G_r
\* alone when the multipliers are recomputed, from the certificate H of the
\* forward solve, G and G_r otherwise
JacOf(ctx, lsq, b) ==
    IF ctx.compute_multipliers
    THEN make_jac_linop(H_r_of(ctx, lsq[b], b), G_r_of(ctx, b), G_r_of(ctx, b))
    ELSE make_jac_linop(ctx.Hs[b], G_of(ctx, b), G_r_of(ctx, b))

\* the outcome of a backward call that has not happened
NoBwd ==
    [status |-> "none", error |-> "", adj |-> <<>>, lsq |-> <<>>,
     lstsq_G |-> <<>>, all_mults |-> <<>>, jac |-> <<>>, dy_bar_2 |-> <<>>,
     grads |-> <<>>]

\* the whole of backward: one gradient per parameter slot (slot -1 is the
\* objective, slot i the constraint of index i), each with its shape and its
\* matrices in the order of the leading indices
Backward(ctx, adj, lsq) ==
    LET B == Len(ctx.xs)
        obj == IF ctx.param_dict.objective
               THEN <<[slot |-> -1, shape |-> <<B, n_vars, n_vars>>,
                       mats |-> [b \in 1..B |-> dH_bar_of(ctx.xs[b], adj[b])]]>>
               ELSE <<>>
        con == [k \in 1..Len(ctx.param_dict.constraints) |->
                  LET ind == ctx.param_dict.constraints[k]
                  IN  [slot |-> ind,
                       shape |-> dA_shape(ctx, ind),
                       mats |->
                          IF Len(dA_shape(ctx, ind)) = 3
                          THEN [b \in 1..B |->
                                  dA_of(ctx, ctx.xs[b], adj[b],
                                        ctx.mults[b][ind + 1], ind)]
                          ELSE [p \in 1..(B * B) |->
                                  dA_broadcast(ctx, adj, lsq, ind,
                                               ((p - 1) \div B) + 1,
                                               ((p - 1) % B) + 1)]]]
        \* lines 635-642: the first parameterized constraint that raises
        err_at(k) == IF ctx.param_dict.constraints[k] \in ctx.redundant_inds
                     THEN GradError(ctx)
                     ELSE MultsError(ctx, ctx.param_dict.constraints[k])
        bad == {k \in 1..Len(ctx.param_dict.constraints) : err_at(k) # ""}
        \* lines 541-620: the batch elements the loop goes through: none when
        \* np.vstack(G_r) raises, those before the element whose KKT test
        \* fails, otherwise all
        kkt_bad == {b \in 1..B : ctx.compute_multipliers
                                 /\ ~KKTSatisfied(ctx, lsq[b], b)}
        n_lstsq == IF NonRedundant(ctx) = {} \/ ~ctx.compute_multipliers THEN 0
                   ELSE IF kkt_bad = {} THEN B
                   ELSE CHOOSE b \in kkt_bad : \A c \in kkt_bad : b <= c
        n_done == IF NonRedundant(ctx) = {} THEN 0
                  ELSE IF kkt_bad = {} THEN B
                  ELSE (CHOOSE b \in kkt_bad : \A c \in kkt_bad : b <= c) - 1
        loop == [NoBwd EXCEPT
                    !.adj = adj, !.lsq = lsq,
                    !.lstsq_G = [b \in 1..n_lstsq |-> G_r_of(ctx, b)],
                    !.all_mults =
                        [b \in 1..n_lstsq |->
                            [i \in 1..Len(ctx.constraints) |->
                                all_mults_of(ctx, lsq[b], i - 1)]],
                    !.jac = [b \in 1..n_done |-> JacOf(ctx, lsq, b)],
                    !.dy_bar_2 =
                        [b \in 1..n_done |->
                            [i \in 1..Len(ctx.constraints) |->
                                dy_bar_2_of(ctx, adj[b], i - 1)]]]
        failed == [loop EXCEPT !.status = "error"]
    IN  IF NonRedundant(ctx) = {}
        THEN [failed EXCEPT !.error = GradError(ctx)]
        ELSE IF KKTError(ctx, lsq) # ""
        THEN [failed EXCEPT !.error = KKTError(ctx, lsq)]
        ELSE IF bad # {}
        THEN [failed EXCEPT
                 !.error = err_at(CHOOSE k \in bad : \A j \in bad : k <= j)]
        ELSE [loop EXCEPT !.status = "grads", !.grads = obj \o con]

(***************************************************************************)
(* The inputs the model draws.                                             *)
(***************************************************************************)
\* the constraint lists a caller hands to the constructor
ConstrLists == UNION {[1..n -> {"None", "mat"}] : n \in 0..MaxConstr}

\* the redundant-index lists a caller hands to the constructor: none, or one
\* index of constraints + [A_0]
RedunLists(constraints) == {{}} \cup {{i} : i \in 0..Len(constraints)}

\* the matrices a caller passes to forward: one symmetric, two not
CallerMats ==
    << <<<<2, 0>>, <<0, 2>>>>, <<<<2, 4>>, <<0, 2>>>>, <<<<0, 2>>, <<4, 0>>>> >>

\* a tensor whose matrices run through CallerMats from position p on
Tensor(p, ndim, B) ==
    [ndim |-> ndim,
     mats |-> [b \in 1..B |-> CallerMats[((p + b) % Len(CallerMats)) + 1]]]

\* the argument lists of forward: one tensor per parameter slot, 2-D or 3-D
ForwardInputs(L) ==
    {[k \in 1..Len(L.params) |-> Tensor(p + k, shape[1], shape[2])] :
        p \in 0..(Len(CallerMats) - 1),
        shape \in {<<2, 1>>} \cup {<<3, B>> : B \in 1..MaxBatch}}

\* the keyword arguments of forward
ForwardKwargs ==
    {[has_solver_args |-> FALSE, solve_method |-> "none"],
     [has_solver_args |-> TRUE, solve_method |-> "none"],
     [has_solver_args |-> TRUE, solve_method |-> "mosek"]}

\* the matrices X a solver returns: rank one (eigenvalues 1, 0 and 2, 0),
\* and one of eigenvalue ratio 20
SolverXs == {DiagMat(<<1, 0>>), <<<<1, 1>>, <<1, 1>>>>, DiagMat(<<20, 1>>)}

\* what the solvers answer in a call of batch size B on layer L
SolverAnswers(L, kwargs, B) ==
    {[Xs |-> Xs,
      y |-> [b \in 1..B |-> [k \in 1..(Len(L.constr_list) + 1) |-> yv]],
      Hs |-> [b \in 1..B |-> DiagMat(<<0, 1>>)],
      fail_at |-> f, squeezed |-> FALSE] :
        Xs \in [1..B -> SolverXs], yv \in {-1, 0},
        f \in IF kwargs.solve_method = "mosek" THEN 0..B ELSE {0}}

\* the values a caller binds the module global ER_MIN to
ErMinChoices == {ER_MIN, 10}

\* the solutions LSQR returns, the same for every batch element: all zeros,
\* all ones, or a unit vector
AdjointSolutions(ctx) ==
    LET k == n_vars + Cardinality(NonRedundant(ctx))
        vecs == {[j \in 1..k |-> 0], [j \in 1..k |-> 1]}
                \cup {[j \in 1..k |-> IF j = e THEN 1 ELSE 0] : e \in 1..k}
    IN  {[b \in 1..Len(ctx.xs) |-> v] : v \in vecs}

\* the entries of the solutions np.linalg.lstsq returns
LstsqVals == {-2, 0}

\* the solutions np.linalg.lstsq returns when the multipliers are recomputed,
\* the same for every batch element
LstsqAnswers(ctx) ==
    IF ctx.compute_multipliers
    THEN {[b \in 1..Len(ctx.xs) |-> m] :
            m \in [1..Cardinality(NonRedundant(ctx)) -> LstsqVals]}
    ELSE {<<>>}

(***************************************************************************)
(* The layer: construction, configuration, forward and backward calls.     *)
(***************************************************************************)
NoCheck == [X |-> <<>>, ER_min |-> 0, done |-> FALSE, tight |-> FALSE,
            ER |-> [num |-> 0, den |-> 0]]

\* no get_nullspace call
NoNull ==
    [status |-> "none", A |-> <<>>, method |-> "", P |-> <<>>, S |-> <<>>,
     rank |-> 0, basis |-> <<>>]

\* no tune_stereo_params_* call
NoTune ==
    [status |-> "none", fn |-> "", max_iter |-> 0, tol_grad_sq |-> 0,
     tol_loss |-> 0, grad_sq |-> 0, n_iter |-> 0, loss |-> 0,
     iter_info |-> <<>>]

\* lines 269-273: forward leaves in the CVXPY parameters of self.problem the
\* values it assigned before its last MOSEK solve
ParamsAfter(old, c) ==
    IF c.mosek_values = <<>> THEN old
    ELSE c.mosek_values[Len(c.mosek_values)]

Init ==
    /\ constr_arg \in ConstrLists
    /\ er_min_cfg = ER_MIN
    /\ layer = NoLayer
    /\ call = NoCall
    /\ bwd = NoBwd
    /\ tc = NoCheck
    /\ params_value = <<>>
    /\ thr = <<>>
    /\ ns = NoNull
    /\ tune = NoTune
    /\ calls = <<>>
    /\ bwds = <<>>

\* layer = SDPRLayer(n_vars, constraints=constr_arg, objective=..., ...) with
\* homogenize and compute_multipliers left at their defaults
Construct ==
    /\ layer.status = "none"
    /\ \E objective \in {"None", "mat"}, use_dual \in {"True", "False", "None"},
          diff_qcqp \in BOOLEAN, redun_list \in RedunLists(constr_arg) :
          LET r == SDPRLayer_init(constr_arg, objective, FALSE, use_dual,
                                  diff_qcqp, FALSE, redun_list)
          IN  /\ layer' = r.layer
              /\ constr_arg' = r.constr_list
    /\ UNCHANGED <<er_min_cfg, call, bwd, tc, params_value, thr, ns,
                   tune, calls, bwds>>

\* the caller rebinds the module global: sdprlayer.ER_MIN = v
Configure ==
    /\ layer.status = "none"
    /\ \E v \in ErMinChoices \ {er_min_cfg} : er_min_cfg' = v
    /\ UNCHANGED <<constr_arg, layer, call, bwd, tc, params_value, thr, ns,
                   tune, calls, bwds>>

\* Xs, xs = layer(*param_vals, **kwargs); a behaviour follows one forward call
Forward ==
    /\ layer.status = "ok"
    /\ call.status = "none"
    /\ \E inputs \in ForwardInputs(layer), kwargs \in ForwardKwargs :
          \E sol \in SolverAnswers(layer, kwargs, Len(inputs[1].mats)) :
              call' = ForwardOutcome(layer, inputs, kwargs, sol, er_min_cfg)
    /\ bwd' = NoBwd
    /\ params_value' = ParamsAfter(params_value, call')
    /\ UNCHANGED <<constr_arg, er_min_cfg, layer, tc, thr, ns,
                   tune, calls, bwds>>

\* loss.backward() through the x returned by the last forward call: autograd
\* calls DiffQCQP.backward with the context that call stored
BackwardCall ==
    /\ call.status = "returned"
    /\ call.ctx.built
    /\ bwd.status = "none"
    /\ \E adj \in AdjointSolutions(call.ctx), lsq \in LstsqAnswers(call.ctx) :
          bwd' = Backward(call.ctx, adj, lsq)
    /\ UNCHANGED <<constr_arg, er_min_cfg, layer, call, tc, params_value, thr,
                   ns,
                   tune, calls, bwds>>

Next == Construct \/ Configure \/ Forward \/ BackwardCall

Spec == Init /\ [][Next]_vars

(***************************************************************************)
(* Forward calls with arguments of any shapes, on layers built with        *)
(* homogenize=False or homogenize=True.                                    *)
(***************************************************************************)
\* the shapes of an argument: 2-D, or 3-D with a batch size
TensorShapes == {<<2, 1>>} \cup {<<3, B>> : B \in 1..MaxBatch}

\* the shapes of a triplet (mat, vec, const): the same three times, or a
\* vec of another ndim, or a const of another batch size
TripletShapes ==
    {<<sh, sh, sh>> : sh \in TensorShapes}
    \cup {<<<<3, 1>>, <<2, 1>>, <<3, 1>>>>,
          <<<<3, MaxBatch>>, <<3, MaxBatch>>, <<3, 1>>>>}

\* the entries of the matrices F, fvec and f a caller passes
HomogVals == <<0, 2, 4>>

\* the j-th argument of a homogenize=True call: F, fvec or f
HomogTensor(j, ndim, B) ==
    [ndim |-> ndim,
     mats |-> [b \in 1..B |->
                 LET v == HomogVals[((j + b) % Len(HomogVals)) + 1]
                     rows == IF j % 3 = 0 THEN 1 ELSE n_vars - 1
                     cols == IF j % 3 = 1 THEN n_vars - 1 ELSE 1
                 IN  [r \in 1..rows |-> [c \in 1..cols |-> v]]]]

\* the argument lists of forward: one tensor per parameter slot, or three
\* when the layer homogenizes, each of a shape of its own
AnyInputs(L) ==
    IF L.homogenize
    THEN {[j \in 1..(3 * Len(L.params)) |->
              LET sh == shapes[(j + 2) \div 3][((j - 1) % 3) + 1]
              IN  HomogTensor(j, sh[1], sh[2])] :
            shapes \in [1..Len(L.params) -> TripletShapes]}
    ELSE {[k \in 1..Len(L.params) |-> Tensor(k, shapes[k][1], shapes[k][2])] :
            shapes \in [1..Len(L.params) -> TensorShapes]}

\* what the solvers answer: the same X for every element of the batch
UniformAnswers(L, kwargs, B) ==
    {[Xs |-> [b \in 1..B |-> X],
      y |-> [b \in 1..B |-> [k \in 1..(Len(L.constr_list) + 1) |-> 0]],
      Hs |-> [b \in 1..B |-> DiagMat(<<0, 1>>)],
      fail_at |-> f, squeezed |-> q] :
        X \in SolverXs, q \in BOOLEAN,
        f \in IF kwargs.solve_method = "mosek" THEN {0, 1} ELSE {0}}

\* layer = SDPRLayer(n_vars, constraints=constr_arg, objective=...,
\* homogenize=..., use_dual=..., diff_qcqp=...)
ConstructAny ==
    /\ layer.status = "none"
    /\ \E objective \in {"None", "mat"}, homogenize \in BOOLEAN,
          use_dual \in {"True", "False"}, diff_qcqp \in BOOLEAN :
          LET r == SDPRLayer_init(constr_arg, objective, homogenize, use_dual,
                                  diff_qcqp, FALSE, {})
          IN  /\ layer' = r.layer
              /\ constr_arg' = r.constr_list
    /\ UNCHANGED <<er_min_cfg, call, bwd, tc, params_value, thr, ns,
                   tune, calls, bwds>>

\* Xs, xs = layer(*param_vals, **kwargs) with arguments of any shapes
ForwardAny ==
    /\ layer.status = "ok"
    /\ call.status = "none"
    /\ \E inputs \in AnyInputs(layer), kwargs \in ForwardKwargs :
          \E sol \in UniformAnswers(layer, kwargs, Len(inputs[1].mats)) :
              call' = ForwardOutcome(layer, inputs, kwargs, sol, er_min_cfg)
    /\ bwd' = NoBwd
    /\ params_value' = ParamsAfter(params_value, call')
    /\ UNCHANGED <<constr_arg, er_min_cfg, layer, tc, thr, ns,
                   tune, calls, bwds>>

NextDims == ConstructAny \/ ForwardAny

SpecDims == Init /\ [][NextDims]_vars

(***************************************************************************)
(* Differentiable layers built with compute_multipliers=False or True.     *)
(***************************************************************************)
\* layer = SDPRLayer(n_vars, constraints=constr_arg, objective=...,
\* compute_multipliers=..., redun_list=...)
ConstructMult ==
    /\ layer.status = "none"
    /\ \E objective \in {"None", "mat"}, compute_multipliers \in BOOLEAN,
          redun_list \in RedunLists(constr_arg) :
          LET r == SDPRLayer_init(constr_arg, objective, FALSE, "True", TRUE,
                                  compute_multipliers, redun_list)
          IN  /\ layer' = r.layer
              /\ constr_arg' = r.constr_list
    /\ UNCHANGED <<er_min_cfg, call, bwd, tc, params_value, thr, ns,
                   tune, calls, bwds>>

NextMult == ConstructMult \/ Forward \/ BackwardCall

SpecMult == Init /\ [][NextMult]_vars

(***************************************************************************)
(* Backward calls whose batch elements get answers of their own from LSQR  *)
(* and from np.linalg.lstsq.                                               *)
(***************************************************************************)
\* the solutions LSQR returns, one for every batch element
AdjointSolutionsAny(ctx) ==
    LET k == n_vars + Cardinality(NonRedundant(ctx))
        vecs == {[j \in 1..k |-> 0], [j \in 1..k |-> 1]}
                \cup {[j \in 1..k |-> IF j = e THEN 1 ELSE 0] : e \in 1..k}
    IN  [1..Len(ctx.xs) -> vecs]

\* the solutions np.linalg.lstsq returns, one for every batch element
LstsqAnswersAny(ctx) ==
    IF ctx.compute_multipliers
    THEN [1..Len(ctx.xs) -> [1..Cardinality(NonRedundant(ctx)) -> LstsqVals]]
    ELSE {<<>>}

\* loss.backward() through the x returned by the last forward call
BackwardAny ==
    /\ call.status = "returned"
    /\ call.ctx.built
    /\ bwd.status = "none"
    /\ \E adj \in AdjointSolutionsAny(call.ctx),
          lsq \in LstsqAnswersAny(call.ctx) :
          bwd' = Backward(call.ctx, adj, lsq)
    /\ UNCHANGED <<constr_arg, er_min_cfg, layer, call, tc, params_value, thr,
                   ns,
                   tune, calls, bwds>>

NextBatch == ConstructMult \/ Forward \/ BackwardAny

SpecBatch == Init /\ [][NextBatch]_vars

(***************************************************************************)
(* Forward calls with solve_method 'mosek' that threads run on one layer.  *)
(* A call is cut at its calls of self.problem.solve: the assignment of the *)
(* parameters of one batch element, the solve of that element, and the     *)
(* rest of forward after the loop are one step each.                       *)
(***************************************************************************)
MaxThreads == 2

Threads == 1..MaxThreads

\* a thread that has not called forward
IdleThread ==
    [pc |-> "idle", inputs |-> <<>>, param_vals_h |-> <<>>, N_batch |-> 0,
     iBatch |-> 0, solved |-> <<>>, result |-> NoCall]

\* solver_args = {"solve_method": "mosek"}
MosekKwargs == [has_solver_args |-> TRUE, solve_method |-> "mosek"]

\* a layer built with use_dual=True and a parameterized objective, which no
\* thread has called
InitConc ==
    /\ \E constraints \in ConstrLists, diff_qcqp \in BOOLEAN :
          LET r == SDPRLayer_init(constraints, "None", FALSE, "True",
                                  diff_qcqp, FALSE, {})
          IN  /\ layer = r.layer
              /\ constr_arg = r.constr_list
    /\ er_min_cfg = ER_MIN
    /\ call = NoCall
    /\ bwd = NoBwd
    /\ tc = NoCheck
    /\ params_value = <<>>
    /\ thr = [t \in Threads |-> IdleThread]
    /\ ns = NoNull
    /\ tune = NoTune
    /\ calls = <<>>
    /\ bwds = <<>>

\* lines 201-266: thread t calls layer(*inputs, solver_args=...): the checks
\* of the dimensions, make_symmetric, assert self.use_dual
BeginForward(t) ==
    /\ thr[t].pc = "idle"
    /\ \E inputs \in ForwardInputs(layer) :
          thr' = [thr EXCEPT ![t] =
                    IF DimsError(inputs) # "" \/ ~Truthy(layer.use_dual)
                    THEN [IdleThread EXCEPT !.pc = "error", !.inputs = inputs]
                    ELSE [IdleThread EXCEPT
                             !.pc = "assign", !.inputs = inputs,
                             !.param_vals_h = Symmetrized(inputs),
                             !.N_batch = Len(inputs[1].mats),
                             !.iBatch = 1]]
    /\ UNCHANGED <<constr_arg, er_min_cfg, layer, call, bwd, tc, params_value,
                   ns,
                   tune, calls, bwds>>

\* lines 269-273: thread t assigns the values of batch element iBatch to the
\* CVXPY parameters of self.problem
AssignParameters(t) ==
    /\ thr[t].pc = "assign"
    /\ params_value' = MosekValues(layer, thr[t].param_vals_h, thr[t].iBatch)
    /\ thr' = [thr EXCEPT ![t].pc = "solve"]
    /\ UNCHANGED <<constr_arg, er_min_cfg, layer, call, bwd, tc, ns,
                   tune, calls, bwds>>

\* lines 275-299: thread t calls self.problem.solve, which solves the problem
\* with the values its parameters hold, then tests the status and goes on to
\* the next batch element
SolveProblem(t) ==
    /\ thr[t].pc = "solve"
    /\ \E status \in {"optimal", "infeasible"} :
          LET solved == Append(thr[t].solved,
                               [iBatch |-> thr[t].iBatch,
                                values |-> params_value,
                                status |-> status])
          IN  thr' = [thr EXCEPT ![t] =
                        IF status # "optimal"
                        THEN [@ EXCEPT !.pc = "error", !.solved = solved]
                        ELSE IF thr[t].iBatch < thr[t].N_batch
                        THEN [@ EXCEPT !.pc = "assign", !.solved = solved,
                                       !.iBatch = @ + 1]
                        ELSE [@ EXCEPT !.pc = "cone", !.solved = solved]]
    /\ UNCHANGED <<constr_arg, er_min_cfg, layer, call, bwd, tc, params_value,
                   ns,
                   tune, calls, bwds>>

\* lines 301-379: thread t injects the solutions into the cone solver, tests
\* the tightness and returns
FinishForward(t) ==
    /\ thr[t].pc = "cone"
    /\ \E sol \in UniformAnswers(layer, MosekKwargs, thr[t].N_batch) :
          /\ sol.fail_at = 0
          /\ ~sol.squeezed
          /\ thr' = [thr EXCEPT ![t] =
                [@ EXCEPT
                    !.pc = "done",
                    !.result =
                        [ForwardOutcome(layer, thr[t].inputs, MosekKwargs, sol,
                                        er_min_cfg)
                         EXCEPT !.mosek_values =
                             [k \in 1..Len(thr[t].solved) |->
                                 thr[t].solved[k].values]]]]
    /\ UNCHANGED <<constr_arg, er_min_cfg, layer, call, bwd, tc, params_value,
                   ns,
                   tune, calls, bwds>>

NextConc ==
    \E t \in Threads :
        \/ BeginForward(t)
        \/ AssignParameters(t)
        \/ SolveProblem(t)
        \/ FinishForward(t)

SpecConc == InitConc /\ [][NextConc]_vars

(***************************************************************************)
(* get_nullspace(A_dense, method, tolerance), lines 676-731.               *)
(*                                                                         *)
(* A_dense is a list of rows.  The matrices drawn have at most one nonzero *)
(* entry in each column, so that the pivoted QR factorization of scipy is  *)
(* known exactly: the columns chosen as pivots are multiples of distinct   *)
(* unit vectors, and what is left of a column after the pivots are removed *)
(* is the column itself or zero.  The triangular solve gives fractions,    *)
(* kept as records [num, den] with den > 0.  method="qr" is called on      *)
(* the matrices that have at most one nonzero entry in each row as well:   *)
(* every Householder reflection of np.linalg.qr(A.T) is then the identity  *)
(* or exchanges two coordinates.  method="svd" is not modelled.            *)
(***************************************************************************)
MaxNullRows == 2

MaxNullCols == 3

\* default of the parameter tolerance is 1e-5: s > tolerance iff
\* s * NULL_TOL_INV > 1
NULL_TOL_INV == 100000

NullVals == {-2, 1}

Rat(p, q) == IF q < 0 THEN [num |-> -p, den |-> -q] ELSE [num |-> p, den |-> q]

RAdd(a, b) == Rat(a.num * b.den + b.num * a.den, a.den * b.den)

RMul(a, b) == Rat(a.num * b.num, a.den * b.den)

RDiv(a, b) == Rat(a.num * b.den, a.den * b.num)

RECURSIVE RSum(_)
RSum(s) == IF s = <<>> THEN Rat(0, 1) ELSE RAdd(Head(s), RSum(Tail(s)))

NRows(A) == Len(A)

NCols(A) == Len(A[1])

\* the number of rows of the factor R of mode="economic"
EconRows(A) == IF NRows(A) < NCols(A) THEN NRows(A) ELSE NCols(A)

\* the m x n matrices with at most one nonzero entry in each column
NullMatrices ==
    UNION {
        { [i \in 1..m |-> [j \in 1..n |->
              IF cols[j][1] = i THEN cols[j][2] ELSE 0]] :
          cols \in [1..n -> ({<<0, 0>>} \cup ((1..m) \X NullVals))] } :
        m \in 1..MaxNullRows, n \in 1..MaxNullCols }

\* the row of the nonzero entry of column j, 0 for a zero column
ColRow(A, j) ==
    IF \E i \in 1..NRows(A) : A[i][j] # 0
    THEN CHOOSE i \in 1..NRows(A) : A[i][j] # 0
    ELSE 0

\* the rows taken by the pivots before step j
PivotRowsBefore(A, P, j) == {ColRow(A, P[t]) : t \in 1..(j - 1)} \ {0}

\* squared norm of what is left of column P[k] at step j of the
\* factorization
ResNormSq(A, P, j, k) ==
    SumSeq([i \in 1..NRows(A) |->
        IF i \in PivotRowsBefore(A, P, j) THEN 0 ELSE A[i][P[k]] * A[i][P[k]]])

\* line 701, the permutations P that la.qr(A, pivoting=True) can return:
\* at every step the pivot is a column of largest remaining norm
PivotOrders(A) ==
    LET n == NCols(A)
        K == EconRows(A)
    IN  { P \in [1..n -> 1..n] :
            /\ \A a, b \in 1..n : P[a] = P[b] => a = b
            /\ \A j \in 1..K : \A k \in j..n :
                  ResNormSq(A, P, j, j) >= ResNormSq(A, P, j, k) }

\* line 701, the factor R of mode="economic" for the order P: row j is the
\* row of A that pivot j takes, in the column order P, up to the sign sgn[j]
\* of the reflection; it is zero when nothing is left of column P[j]
QR_R(A, P, sgn) ==
    LET n == NCols(A)
        K == EconRows(A)
    IN  [j \in 1..K |-> [c \in 1..n |->
            IF ResNormSq(A, P, j, j) = 0 THEN 0
            ELSE sgn[j] * A[ColRow(A, P[j])][P[c]]]]

\* lines 704-705: S = np.abs(np.diag(R)); rank = np.sum(S > tolerance)
DiagAbs(R) == [j \in 1..Len(R) |-> Abs(R[j][j])]

RankAtTol(S) == Cardinality({j \in 1..Len(S) : S[j] * NULL_TOL_INV > 1})

\* la.solve_triangular(R11, b) for one right-hand side b, by back
\* substitution: entry j of the solution
RECURSIVE BackSub(_, _, _)
BackSub(R11, b, j) ==
    RDiv(RAdd(Rat(b[j], 1),
              RSum([d \in 1..(Len(R11) - j) |->
                      RMul(Rat(-R11[j][j + d], 1), BackSub(R11, b, j + d))])),
         Rat(R11[j][j], 1))

\* line 710: N = np.vstack([la.solve_triangular(R11, R12), -np.eye(...)]),
\* a list of n rows of n - rank entries
NullN(R, rank) ==
    LET n   == Len(R[1])
        R11 == [j \in 1..rank |-> [c \in 1..rank |-> R[j][c]]]
        R12col(k) == [j \in 1..rank |-> R[j][rank + k]]
    IN  [c \in 1..n |-> [k \in 1..(n - rank) |->
            IF c <= rank THEN BackSub(R11, R12col(k), c)
            ELSE IF c - rank = k THEN Rat(-1, 1) ELSE Rat(0, 1)]]

\* the un-permutation left out: basis = N.T
Unpermute_Identity(N, P) ==
    [k \in 1..Len(N[1]) |-> [j \in 1..Len(N) |-> N[j][k]]]

\* lines 721-722: basis = np.zeros(N.T.shape); basis[:, P] = N.T
Unpermute(N, P) ==
    [k \in 1..Len(N[1]) |-> [j \in 1..Len(N) |->
        N[CHOOSE c \in 1..Len(N) : P[c] = j][k]]]

\* A has at most one nonzero entry in each row
OneNonzeroPerRow(A) ==
    \A i \in 1..NRows(A) : Cardinality({j \in 1..NCols(A) : A[i][j] # 0}) <= 1

\* A_dense.T
TransposeRect(A) == [j \in 1..NCols(A) |-> [i \in 1..NRows(A) |-> A[i][j]]]

\* the reflection H of step j of np.linalg.qr on W (LAPACK dgeqrf): the
\* identity (i = 0) when column j has no entry below row j, otherwise, the
\* entry v being in row i > j and W[j][j] being 0, H = I - w w^T with
\* w = e_j + s e_i, s the sign of v
Reflector(W, j) ==
    LET rows == {i \in (j + 1)..Len(W) : W[i][j] # 0}
    IN  IF rows = {} THEN [i |-> 0, s |-> 1]
        ELSE LET i == CHOOSE i \in rows : TRUE
             IN  [i |-> i, s |-> IF W[i][j] < 0 THEN -1 ELSE 1]

\* H y for the reflection h of step j: entries j and h.i are exchanged and
\* multiplied by -s
Reflect(h, j, y) ==
    IF h.i = 0 THEN y
    ELSE [r \in 1..Len(y) |->
            IF r = j THEN -h.s * y[h.i]
            ELSE IF r = h.i THEN -h.s * y[j]
            ELSE y[r]]

\* H W: the reflection applied to every column of W
ReflectRows(h, j, W) ==
    IF h.i = 0 THEN W
    ELSE [r \in 1..Len(W) |->
            IF r = j THEN [c \in 1..Len(W[r]) |-> -h.s * W[h.i][c]]
            ELSE IF r = h.i THEN [c \in 1..Len(W[r]) |-> -h.s * W[j][c]]
            ELSE W[r]]

\* the steps Len(hs) + 1 .. K of the factorization: the reflections and
\* what W has become
RECURSIVE HouseholderQR(_, _, _)
HouseholderQR(W, hs, K) ==
    IF Len(hs) >= K THEN [W |-> W, hs |-> hs]
    ELSE LET h == Reflector(W, Len(hs) + 1)
         IN  HouseholderQR(ReflectRows(h, Len(hs) + 1, W), Append(hs, h), K)

\* H_1 H_2 ... H_j y
RECURSIVE ApplyReflectors(_, _, _)
ApplyReflectors(hs, j, y) ==
    IF j = 0 THEN y ELSE ApplyReflectors(hs, j - 1, Reflect(hs[j], j, y))

\* line 691, Q, R = np.linalg.qr(B) in the default mode "reduced": Q is the
\* first K columns of H_1 ... H_K and R the first K rows of H_K ... H_1 B
np_linalg_qr(B) ==
    LET n == Len(B)
        K == IF Len(B[1]) < n THEN Len(B[1]) ELSE n
        f == HouseholderQR(B, <<>>, K)
    IN  [Q |-> [r \in 1..n |-> [c \in 1..K |->
                  ApplyReflectors(f.hs, K, [t \in 1..n |->
                                              IF t = c THEN 1 ELSE 0])[r]]],
         R |-> [j \in 1..K |-> f.W[j]]]

\* line 693: np.argsort(S)[::-1], the indices of S in the reverse of the
\* ascending stable order
ArgsortReversed(S) ==
    [p \in 1..Len(S) |->
        CHOOSE j \in 1..Len(S) :
            Cardinality({k \in 1..Len(S) :
                S[k] > S[j] \/ (S[k] = S[j] /\ k > j)}) = p - 1]

\* a call that has not been made, on the argument A
NullCall(A) == [NoNull EXCEPT !.A = A]

\* lines 688-697, method="qr"
get_nullspace_qr(A) ==
    LET f == np_linalg_qr(TransposeRect(A))
        S0 == DiagAbs(f.R)
        sorted_idx == ArgsortReversed(S0)
        S == [p \in 1..Len(S0) |-> S0[sorted_idx[p]]]
        small == {p \in 1..Len(S) : S[p] * NULL_TOL_INV < 1}
        \* rank = np.where(S < tolerance)[0][0], counted from 0
        rank == (CHOOSE p \in small : \A q \in small : p <= q) - 1
    IN  IF small = {}
        THEN [NullCall(A) EXCEPT !.status = "error: IndexError",
                                  !.method = "qr", !.S = S]
        ELSE [status |-> "returned", A |-> A, method |-> "qr", P |-> <<>>,
              S |-> S, rank |-> rank,
              basis |-> [p \in 1..(Len(S) - rank) |->
                            [r \in 1..NCols(A) |->
                                Rat(f.Q[r][sorted_idx[rank + p]], 1)]]]

\* get_nullspace(A, method): P and sgn are the choices of la.qr, empty_ok
\* tells whether la.solve_triangular accepts an operand without rows or
\* without columns (rank = 0, rank = n), which is up to the scipy version
get_nullspace(A, method, P, sgn, empty_ok) ==
    IF method = "qr"
    THEN get_nullspace_qr(A)
    ELSE IF method # "qrp"
    THEN [NullCall(A) EXCEPT !.status = "error: ValueError", !.method = method]
    ELSE
    LET n    == NCols(A)
        R    == QR_R(A, P, sgn)
        S    == DiagAbs(R)
        rank == RankAtTol(S)
    IN  IF (rank = 0 \/ rank = n) /\ ~empty_ok
        THEN [NullCall(A) EXCEPT !.status = "error: solve_triangular",
                                  !.method = method,
                                  !.P = P, !.S = S, !.rank = rank]
        ELSE [status |-> "returned", A |-> A, method |-> method, P |-> P,
              S |-> S, rank |-> rank,
              basis |-> IF rank = n THEN <<>>
                        ELSE Unpermute(NullN(R, rank), P)]

InitNull ==
    /\ constr_arg = <<>>
    /\ er_min_cfg = ER_MIN
    /\ layer = NoLayer
    /\ call = NoCall
    /\ bwd = NoBwd
    /\ tc = NoCheck
    /\ params_value = <<>>
    /\ thr = <<>>
    /\ \E A \in NullMatrices : ns = NullCall(A)
    /\ tune = NoTune
    /\ calls = <<>>
    /\ bwds = <<>>

GetNullspace ==
    /\ ns.status = "none"
    /\ \E method \in {"qrp", "lu"}
                     \cup (IF OneNonzeroPerRow(ns.A) THEN {"qr"} ELSE {}) :
          IF method # "qrp"
          THEN ns' = get_nullspace(ns.A, method, <<>>, <<>>, TRUE)
          ELSE \E P \in PivotOrders(ns.A),
                  sgn \in [1..EconRows(ns.A) -> {-1, 1}],
                  empty_ok \in BOOLEAN :
                  ns' = get_nullspace(ns.A, method, P, sgn, empty_ok)
    /\ UNCHANGED <<constr_arg, er_min_cfg, layer, call, bwd, tc, params_value,
                   thr,
                   tune, calls, bwds>>

NextNull == GetNullspace

SpecNull == InitNull /\ [][NextNull]_vars

(***************************************************************************)
(* Direct calls of the static method check_tightness(X, ER_min).           *)
(***************************************************************************)
\* the eigenvalues of the matrices handed to check_tightness
EigVals == {-7, 0, 1, 3, 100000, 100001}

\* the thresholds handed to check_tightness
TightThresholds == {ER_MIN, 3}

\* the matrices handed to check_tightness: diagonal ones of dimension 2 to
\* MaxEigDim, and the 2x2 matrices [[a, b], [b, a]]
TightInputs ==
    {DiagMat(d) : d \in UNION {[1..n -> EigVals] : n \in 2..MaxEigDim}}
    \cup {<<<<a, b>>, <<b, a>>>> : a \in {0, 1, 3}, b \in {-7, 1, 3}}

InitTight ==
    /\ constr_arg = <<>>
    /\ er_min_cfg = ER_MIN
    /\ layer = NoLayer
    /\ call = NoCall
    /\ bwd = NoBwd
    /\ \E X \in TightInputs, t \in TightThresholds :
          tc = [NoCheck EXCEPT !.X = X, !.ER_min = t]
    /\ params_value = <<>>
    /\ thr = <<>>
    /\ ns = NoNull
    /\ tune = NoTune
    /\ calls = <<>>
    /\ bwds = <<>>

\* tight, ER = SDPRLayer.check_tightness(X, ER_min)
CheckTightness ==
    /\ ~tc.done
    /\ tc.X # <<>>
    /\ LET r == check_tightness(tc.X, tc.ER_min)
       IN  tc' = [tc EXCEPT !.done = TRUE, !.tight = r.tight, !.ER = r.ER]
    /\ UNCHANGED <<constr_arg, er_min_cfg, layer, call, bwd, params_value, thr,
                   ns,
                   tune, calls, bwds>>

NextTight == CheckTightness

SpecTight == InitTight /\ [][NextTight]_vars

(***************************************************************************)
(* utils/stereo_tuner.py: the optimization loops of                        *)
(* tune_stereo_params_sdpr and tune_stereo_params_theseus.  The losses and *)
(* gradient norms that the closures produce are numbers drawn from         *)
(* TuneVals; np.inf is a number above all of them.  A step of the model is *)
(* one test of the while condition, with the loop body when it holds.      *)
(***************************************************************************)
\* the largest max_iter a caller passes in term_crit
MaxIter == 3

\* the values of loss_outer.item() and of grad_sq: at most TuneTol or above
TuneVals == 0..2

\* tol_grad_sq and tol_loss of term_crit, in the unit of TuneVals
TuneTol == 1

\* np.inf
NpInf == 3

\* the test of the while statement on the locals of the call
LoopCondition(t) ==
    t.grad_sq > t.tol_grad_sq /\ t.n_iter < t.max_iter /\ t.loss > t.tol_loss

\* the body of the while loop: the closure gives the outer loss loss_outer
\* and leaves a gradient of squared norm g; converged is whether every
\* status of the inner Theseus optimization is 1
LoopBody(t, loss_outer, g, converged) ==
    LET stored ==
            [t EXCEPT
                !.grad_sq = g,
                \* line 264 binds loss_outer and leaves loss; line 448 binds
                \* loss
                !.loss = IF t.fn = "theseus" THEN loss_outer ELSE t.loss,
                !.iter_info = Append(t.iter_info,
                    [loss |-> loss_outer, grad_sq |-> g, n_iter |-> t.n_iter])]
    IN  IF t.fn = "theseus" /\ ~converged
        THEN [stored EXCEPT !.status = "error: AssertionError"]
        ELSE [stored EXCEPT !.n_iter = t.n_iter + 1]

InitTune ==
    /\ constr_arg = <<>>
    /\ er_min_cfg = ER_MIN
    /\ layer = NoLayer
    /\ call = NoCall
    /\ bwd = NoBwd
    /\ tc = NoCheck
    /\ params_value = <<>>
    /\ thr = <<>>
    /\ ns = NoNull
    /\ calls = <<>>
    /\ bwds = <<>>
    /\ \E fn \in {"sdpr", "theseus"}, max_iter \in 0..MaxIter :
          tune = [status |-> "running", fn |-> fn, max_iter |-> max_iter,
                  tol_grad_sq |-> TuneTol, tol_loss |-> TuneTol,
                  grad_sq |-> NpInf, n_iter |-> 0, loss |-> NpInf,
                  iter_info |-> <<>>]

\* the while condition holds and the body runs once
Iterate ==
    /\ tune.status = "running"
    /\ LoopCondition(tune)
    /\ \E loss_outer \in TuneVals, g \in TuneVals, converged \in BOOLEAN :
          /\ (tune.fn = "sdpr" => converged)
          /\ tune' = LoopBody(tune, loss_outer, g, converged)
    /\ UNCHANGED <<constr_arg, er_min_cfg, layer, call, bwd, tc, params_value,
                   thr, ns, calls, bwds>>

\* the while condition fails: return pd.DataFrame(iter_info)
ReturnInfo ==
    /\ tune.status = "running"
    /\ ~LoopCondition(tune)
    /\ tune' = [tune EXCEPT !.status = "returned"]
    /\ UNCHANGED <<constr_arg, er_min_cfg, layer, call, bwd, tc, params_value,
                   thr, ns, calls, bwds>>

NextTune == Iterate \/ ReturnInfo

SpecTune == InitTune /\ [][NextTune]_vars

(***************************************************************************)
(* Several forward calls on one differentiable layer, and the backward     *)
(* passes of any of them in any order.  bwds[k] is the backward pass       *)
(* through the x that forward call k returned: out is its outcome and      *)
(* after the number of forward calls made on the layer before it ran.      *)
(***************************************************************************)
\* the number of forward calls made on the layer
MaxCalls == 2

\* the mutant of CtxOf: one context, the one of the latest forward call
CtxOf_Latest(cs, k) == cs[Len(cs)].ctx

\* lines 334-353 and 472-528: every forward call makes, with _QCQPDiffFn, a
\* DiffQCQP class of its own, whose closure holds the xs, Hs and mults of
\* the call, and applies it once; autograd hands DiffQCQP.backward the ctx
\* object of that application
CtxOf(cs, k) == cs[k].ctx

\* the layers of the interleavings: objective and constraints of ConstrLists
\* parameterized, use_dual=True, the other arguments at their defaults
InterLayers ==
    {SDPRLayer_init(c, "None", FALSE, "True", TRUE, FALSE, {}) :
        c \in ConstrLists}

\* the arguments of the forward calls: 3-D tensors of batch size 1, running
\* through CallerMats from its first or its second matrix on
InterInputs(L) ==
    {[k \in 1..Len(L.params) |-> Tensor(p + k, 3, 1)] : p \in {2, 0}}

\* the keyword arguments of the forward calls
InterKwargs ==
    {[has_solver_args |-> TRUE, solve_method |-> "none"],
     [has_solver_args |-> TRUE, solve_method |-> "mosek"]}

\* what the solvers answer: two tight solutions with multipliers and
\* certificates of their own, every MOSEK solve being optimal
InterAnswers(L, kwargs) ==
    {[Xs |-> <<a.X>>,
      y |-> <<[k \in 1..(Len(L.constr_list) + 1) |-> a.y]>>,
      Hs |-> <<a.H>>,
      fail_at |-> 0, squeezed |-> FALSE] :
        a \in {[X |-> DiagMat(<<1, 0>>), y |-> -1, H |-> DiagMat(<<0, 1>>)],
               [X |-> <<<<1, 1>>, <<1, 1>>>>, y |-> 0,
                H |-> <<<<1, -1>>, <<-1, 1>>>>]}}

\* the solution LSQR returns
InterAdjoint(ctx) ==
    <<[j \in 1..(n_vars + Cardinality(NonRedundant(ctx))) |-> 1]>>

InitInter ==
    /\ \E r \in InterLayers :
          /\ layer = r.layer
          /\ constr_arg = r.constr_list
    /\ er_min_cfg = ER_MIN
    /\ call = NoCall
    /\ bwd = NoBwd
    /\ tc = NoCheck
    /\ params_value = <<>>
    /\ thr = <<>>
    /\ ns = NoNull
    /\ tune = NoTune
    /\ calls = <<>>
    /\ bwds = <<>>

\* Xs, xs = layer(*param_vals, **kwargs), one more forward call on the layer
ForwardAgain ==
    /\ Len(calls) < MaxCalls
    /\ \E inputs \in InterInputs(layer), kwargs \in InterKwargs :
          \E sol \in InterAnswers(layer, kwargs) :
              LET c == ForwardOutcome(layer, inputs, kwargs, sol, er_min_cfg)
              IN  /\ calls' = Append(calls, c)
                  /\ params_value' = ParamsAfter(params_value, c)
    /\ bwds' = Append(bwds, [after |-> 0, out |-> NoBwd])
    /\ UNCHANGED <<constr_arg, er_min_cfg, layer, call, bwd, tc, thr, ns,
                   tune>>

\* loss.backward() through the x that forward call k returned
BackwardOf ==
    /\ \E k \in 1..Len(calls) :
          /\ calls[k].status = "returned"
          /\ calls[k].ctx.built
          /\ bwds[k].out.status = "none"
          /\ bwds' = [bwds EXCEPT ![k] =
                        [after |-> Len(calls),
                         out |-> Backward(CtxOf(calls, k),
                                          InterAdjoint(calls[k].ctx),
                                          <<>>)]]
    /\ UNCHANGED <<constr_arg, er_min_cfg, layer, call, bwd, tc, params_value,
                   thr, ns, tune, calls>>

NextInter == ForwardAgain \/ BackwardOf

SpecInter == InitInter /\ [][NextInter]_vars

(***************************************************************************)
(* Properties.                                                             *)
(***************************************************************************)
\* the tight flag of one returned X under the threshold forward uses
ElemTight(X) == check_tightness(X, ER_MIN).tight

\* v is the symmetrization (A + A^T) / 2 of A
IsSymOf(v, A) ==
    /\ IsSymmetric(v)
    /\ \A i \in 1..Dim(A) : \A j \in 1..Dim(A) : 2 * v[i][j] = A[i][j] + A[j][i]

\* C1: a forward call that returns gives x = None if and only if at least one
\* batch element fails the tightness test; otherwise x is the batch of the
\* recovered vectors, one per element (diff_qcqp True or False)
C1_XNoneIffSomeElementNotTight ==
    call.status = "returned" =>
        /\ call.x_none <=> \E b \in 1..Len(call.Xs) : ~ElemTight(call.Xs[b])
        /\ ~call.x_none =>
              /\ Len(call.xs) = Len(call.Xs)
              /\ \A b \in 1..Len(call.Xs) :
                    call.xs[b] = extract_column(call.Xs[b])

C1_Witness ==
    /\ call.status = "returned"
    /\ layer.diff_qcqp
    /\ Len(call.Xs) >= 2
    /\ ElemTight(call.Xs[1])
    /\ ~ElemTight(call.Xs[2])
    /\ call.x_none

\* C2: the differentiator is constructed, and a KKT-based gradient produced,
\* only for a forward call in which every batch element was tight; a call
\* with a non-tight element has no differentiator and no x
C2_DifferentiatorOnlyWhenAllTight ==
    /\ call.ctx.built => \A b \in 1..Len(call.Xs) : ElemTight(call.Xs[b])
    /\ bwd.status # "none" =>
          /\ call.ctx.built
          /\ ~call.x_none
          /\ \A b \in 1..Len(call.Xs) : ElemTight(call.Xs[b])
    /\ (call.status = "returned"
        /\ \E b \in 1..Len(call.Xs) : ~ElemTight(call.Xs[b])) =>
          /\ ~call.ctx.built
          /\ call.x_none
          /\ bwd.status = "none"

C2_Witness ==
    /\ call.status = "returned"
    /\ layer.diff_qcqp
    /\ \E b \in 1..Len(call.Xs) : ElemTight(call.Xs[b])
    /\ \E b \in 1..Len(call.Xs) : ~ElemTight(call.Xs[b])
    /\ ~call.ctx.built

\* the largest and the second largest absolute eigenvalue of X
AbsEigsAsc(X) == SortAsc([k \in 1..Dim(X) |-> Abs(eigvalsh(X)[k])])

\* the ratios r and s are the same float
RatioEq(r, s) ==
    IF r.den = 0 \/ s.den = 0
    THEN r.den = s.den /\ ((r.num = 0) <=> (s.num = 0))
    ELSE /\ r.num \div r.den = s.num \div s.den
         /\ (r.num % r.den) * s.den = (s.num % s.den) * r.den

\* C3: the ER of check_tightness is the largest absolute eigenvalue of X
\* divided by the second largest absolute eigenvalue of X
C3_ERIsLargestOverSecondLargestAbs ==
    tc.done =>
        RatioEq(tc.ER, [num |-> AbsEigsAsc(tc.X)[Dim(tc.X)],
                        den |-> AbsEigsAsc(tc.X)[Dim(tc.X) - 1]])

\* C4: check_tightness declares tight exactly when ER is strictly greater than
\* the threshold: an ER equal to it or below it is not tight, an ER above it
\* (inf included, nan excluded) is tight
C4_TightIffERStrictlyAboveThreshold ==
    tc.done =>
        LET num == tc.ER.num
            den == tc.ER.den
            t == tc.ER_min
        IN  /\ (den > 0 /\ num \div den < t) => ~tc.tight
            /\ (den > 0 /\ num \div den = t /\ num % den = 0) => ~tc.tight
            /\ (den > 0 /\ num \div den = t /\ num % den > 0) => tc.tight
            /\ (den > 0 /\ num \div den > t) => tc.tight
            /\ (den = 0 /\ num > 0) => tc.tight
            /\ (den = 0 /\ num = 0) => ~tc.tight

C4_Witness ==
    /\ tc.done
    /\ tc.ER.den > 0
    /\ tc.ER.num \div tc.ER.den = tc.ER_min
    /\ tc.ER.num % tc.ER.den = 0
    /\ ~tc.tight

\* C5: the tightness decision of forward uses the threshold the caller
\* configured (the value ER_MIN was bound to when forward was called)
C5_ForwardUsesConfiguredErMin ==
    call.status = "returned" =>
        (call.alltight <=>
            \A b \in 1..Len(call.Xs) :
                check_tightness(call.Xs[b], call.er_min_cfg).tight)

C7_GradsSymmetric ==
    bwd.status = "grads" =>
        \A s \in 1..Len(bwd.grads) : \A b \in 1..Len(bwd.grads[s].mats) :
            IsSymmetric(bwd.grads[s].mats[b])

\* the outer product x dx^T of batch element b is symmetric
OuterSymmetric(b) ==
    \A i \in 1..n_vars : \A j \in 1..n_vars :
        call.ctx.xs[b][i] * bwd.adj[b][j] = call.ctx.xs[b][j] * bwd.adj[b][i]

\* C7 (amended): a gradient matrix returned by backward is symmetric exactly
\* when its 2 x dx^T term is: the objective gradient iff x dx^T is symmetric,
\* the gradient of constraint i iff y_i = 0 or x dx^T is symmetric
C7_GradSymmetricIffOuterTermSymmetric ==
    bwd.status = "grads" =>
        \A s \in 1..Len(bwd.grads) : \A b \in 1..Len(bwd.grads[s].mats) :
            IsSymmetric(bwd.grads[s].mats[b]) <=>
                IF bwd.grads[s].slot = -1
                THEN OuterSymmetric(b)
                ELSE \/ call.ctx.mults[b][bwd.grads[s].slot + 1] = 0
                     \/ OuterSymmetric(b)

C7_Witness ==
    /\ bwd.status = "grads"
    /\ \E s \in 1..Len(bwd.grads) : \E b \in 1..Len(bwd.grads[s].mats) :
          /\ bwd.grads[s].slot # -1
          /\ ~IsSymmetric(bwd.grads[s].mats[b])
    /\ \E s \in 1..Len(bwd.grads) : \E b \in 1..Len(bwd.grads[s].mats) :
          /\ IsSymmetric(bwd.grads[s].mats[b])
          /\ bwd.grads[s].mats[b] # [i \in 1..n_vars |-> [j \in 1..n_vars |-> 0]]

\* a parameterized constraint of the layer is listed as redundant
RedundantParam ==
    \E i \in layer.redun_list :
        i < Len(layer.constr_list) /\ layer.constr_list[i + 1] = "param"

\* C8: when the index of a parameterized constraint is in the redundant-index
\* list, backward raises and returns no gradient
C8_RedundantParamConstraintRaises ==
    (bwd.status # "none" /\ RedundantParam) =>
        /\ bwd.status = "error"
        /\ bwd.grads = <<>>

C8_Witness ==
    /\ RedundantParam
    /\ layer.objective = "param"
    /\ bwd.status = "error"
    /\ bwd.error = "ValueError: Cannot compute derivative of redundant constraint"

\* C9: use_dual=True builds the dual program (y of one entry per constraint
\* and rho, maximize rho, one PSD constraint), use_dual=False the primal one
\* (PSD variable X, one trace equality per constraint and for A_0, minimize)
C9_UseDualSelectsForm ==
    layer.status = "ok" =>
        /\ layer.use_dual = "True" =>
              /\ layer.problem.form = "dual"
              /\ layer.problem.sense = "Maximize"
              /\ layer.problem.n_y = Len(layer.constr_list) + 1
        /\ layer.use_dual = "False" =>
              /\ layer.problem.form = "primal"
              /\ layer.problem.sense = "Minimize"
              /\ layer.problem.variables = <<"X">>
              /\ layer.problem.n_eq = Len(layer.constr_list) + 1

\* C10: construction fails with an error when no slot is parameterized (a
\* fixed objective and no None entry in the list) and succeeds otherwise;
\* forward runs only on a layer whose construction succeeded
C10_NoParameterSlotsFails ==
    /\ layer.status # "none" =>
          (layer.status = "ok" <=>
              \/ layer.objective = "param"
              \/ \E i \in 1..Len(layer.constr_list) :
                    layer.constr_list[i] = "param")
    /\ layer.status \in {"none", "ok", "AssertionError"}
    /\ call.status # "none" => layer.status = "ok" /\ Len(layer.params) > 0

C10_Witness ==
    /\ layer.status = "AssertionError"
    /\ layer.objective = "mat"
    /\ Len(layer.constr_list) > 0

\* the call asked for the injection of a MOSEK solution
IsMosekCall == call.kwargs.has_solver_args /\ call.kwargs.solve_method = "mosek"

\* C11: a forward call with solve_method 'mosek' on a layer built with
\* use_dual=False raises, and no solve was performed before the error: no
\* parameter was assigned, no solver answered, nothing was returned
C11_MosekOnPrimalRaisesBeforeSolve ==
    (call.status # "none" /\ IsMosekCall /\ layer.use_dual = "False") =>
        /\ call.status = "error"
        /\ call.solves = <<>>
        /\ call.mosek_values = <<>>
        /\ call.cone_args = <<>>
        /\ call.Xs = <<>>

C11_Witness ==
    /\ IsMosekCall
    /\ layer.use_dual = "False"
    /\ call.status = "error"
    /\ call.error = "AssertionError: Primal not implemented"
    /\ call.solves = <<>>

\* C12: when a MOSEK solve of a batch element ends with a status other than
\* optimal, the forward call raises: that solve is the last one of the call
\* (the element is not solved again, no later element is solved), the cone
\* solver is not called and no X and no x is returned
C12_NonOptimalSolveEndsCall ==
    \A k \in 1..Len(call.solves) :
        call.solve_status[k] # "optimal" =>
            /\ call.status = "error"
            /\ call.error = "ValueError: MOSEK did not converge"
            /\ k = Len(call.solves)
            /\ \A j \in 1..Len(call.solves) :
                  /\ call.solves[j] <= call.solves[k]
                  /\ call.solves[j] = call.solves[k] => j = k
            /\ call.cone_args = <<>>
            /\ call.Xs = <<>>
            /\ call.xs = <<>>
            /\ ~call.ctx.built

C12_Witness ==
    /\ call.status = "error"
    /\ Len(call.inputs[1].mats) >= 2
    /\ call.solves = <<1>>
    /\ call.solve_status = <<"infeasible">>

\* two arguments of the call differ in their number of dimensions, or are
\* both 3-D and differ in their leading size
InputsDisagree ==
    \E j \in 1..Len(call.inputs) : \E k \in 1..Len(call.inputs) :
        \/ call.inputs[j].ndim # call.inputs[k].ndim
        \/ Len(call.inputs[j].mats) # Len(call.inputs[k].mats)

AllInputsOfNdim(d) == \A k \in 1..Len(call.inputs) : call.inputs[k].ndim = d

\* C14: a call with 2-D arguments is solved as a batch of one element and
\* returns X of shape (n, n) and x, when not None, of shape (n, 1); a call
\* with 3-D arguments of batch size B returns X of shape (B, n, n) and x of
\* shape (B, n, 1)
C14_OutputBatchDimFollowsInputs ==
    call.status = "returned" =>
        /\ AllInputsOfNdim(2) =>
              /\ Len(call.Xs) = 1
              /\ call.X_shape = <<n_vars, n_vars>>
              /\ ~call.x_none => call.x_shape = <<n_vars, 1>>
        /\ AllInputsOfNdim(3) =>
              /\ Len(call.Xs) = Len(call.inputs[1].mats)
              /\ call.X_shape = <<Len(call.inputs[1].mats), n_vars, n_vars>>
              /\ ~call.x_none =>
                    call.x_shape = <<Len(call.inputs[1].mats), n_vars, 1>>

C14_Witness ==
    /\ call.status = "returned"
    /\ AllInputsOfNdim(2)
    /\ ~call.x_none
    /\ call.X_shape = <<n_vars, n_vars>>
    /\ call.x_shape = <<n_vars, 1>>

Outer(u, v) == [i \in 1..Len(u) |-> [j \in 1..Len(v) |-> u[i] * v[j]]]

\* the multiplier of the constraint of index i for batch element b: the one
\* the forward solve supplied, or the recomputed one
MultiplierOf(i, b) ==
    IF call.ctx.compute_multipliers
    THEN all_mults_of(call.ctx, bwd.lsq[b], i)
    ELSE call.ctx.mults[b][i + 1]

C17_RecomputedMultipliersPassKKT ==
    (bwd.status # "none" /\ call.ctx.compute_multipliers) =>
        /\ bwd.status = "grads" =>
              \A b \in 1..Len(call.ctx.xs) :
                  KKTSatisfied(call.ctx, bwd.lsq[b], b)
        /\ (\E b \in 1..Len(call.ctx.xs) :
                ~KKTSatisfied(call.ctx, bwd.lsq[b], b)) =>
              /\ bwd.status = "error"
              /\ bwd.grads = <<>>

\* the CVXPY parameters of the problem hold no value written by a forward
\* call
ProblemNeverWritten == params_value = <<>>

\* every MOSEK solve of a forward call solved the problem with the values
\* that call assigned for the batch element it was solving
SolvesUseOwnValues ==
    \A t \in DOMAIN thr : \A k \in 1..Len(thr[t].solved) :
        thr[t].solved[k].values =
            MosekValues(layer, thr[t].param_vals_h, thr[t].solved[k].iBatch)

\* C18: forward writes no state shared between calls, and every solve of a
\* call, whatever other calls run on the layer at the same time, uses the
\* parameter values of its own call and batch element
C18_ForwardCallsDoNotInterfere ==
    /\ ProblemNeverWritten
    /\ SolvesUseOwnValues

\* the rank of a matrix with at most one nonzero entry in each column: the
\* number of its rows that have an entry above the tolerance
RankOf(A) ==
    Cardinality({i \in 1..NRows(A) :
        \E j \in 1..NCols(A) : Abs(A[i][j]) * NULL_TOL_INV > 1})

\* entry i of A b^T is zero
RowTimesIsZero(A, b, i) ==
    RSum([j \in 1..NCols(A) |-> RMul(Rat(A[i][j], 1), b[j])]).num = 0

\* row k of the basis has a nonzero entry in a column where every other row
\* has zero
RowStandsAlone(basis, k) ==
    \E j \in 1..Len(basis[k]) :
        /\ basis[k][j].num # 0
        /\ \A l \in 1..Len(basis) : l # k => basis[l][j].num = 0

C17_Witness ==
    /\ call.ctx.compute_multipliers
    /\ bwd.status = "error"
    /\ bwd.error = "AssertionError: KKT conditions cannot be satisfied"
    /\ Len(call.ctx.xs) >= 2
    /\ KKTSatisfied(call.ctx, bwd.lsq[1], 1)
    /\ ~KKTSatisfied(call.ctx, bwd.lsq[2], 2)

\* C21: on the MOSEK path, before batch element b is solved, slot k of the
\* problem's parameters is assigned the symmetrized k-th argument at batch
\* index b, for every slot k
C21_MosekSlotsGetOwnInputs ==
    \A s \in 1..Len(call.mosek_values) :
        /\ Len(call.mosek_values[s]) = Len(call.inputs)
        /\ \A k \in 1..Len(call.mosek_values[s]) :
              call.mosek_values[s][k] =
                  make_symmetric(call.inputs[k].mats[call.solves[s]])

\* the vectors the operator of batch element b is applied to: the unit
\* vectors and the vector of ones, with one entry per column of the operator
JacVectors(M) ==
    {[j \in 1..M.shape[2] |-> IF j = e THEN 1 ELSE 0] : e \in 1..M.shape[2]}
    \cup {[j \in 1..M.shape[2] |-> 1]}

\* C22: the operator built by backward for a batch element is self-adjoint:
\* matvec(v) = rmatvec(v) for every vector v, for every redundant-index set,
\* with supplied multipliers and with recomputed ones
C22_JacobianSelfAdjoint ==
    \A b \in 1..Len(bwd.jac) : \A v \in JacVectors(bwd.jac[b]) :
        /\ matvec(bwd.jac[b], v).error = ""
        /\ rmatvec(bwd.jac[b], v).error = ""
        /\ matvec(bwd.jac[b], v).value = rmatvec(bwd.jac[b], v).value

\* the rows of G are the gradients x^T A_i of the constraints of batch
\* element b that are not listed as redundant, in the order of the constraints
OnlyNonRedundantRows(G, b) ==
    /\ Len(G) = Cardinality(ConstrInds(call.ctx) \ call.ctx.redundant_inds)
    /\ \A k \in 1..Len(G) :
          G[k] = c_grad(call.ctx.xs[b],
                        ElemOf(call.ctx.constraints[
                                   NonRedundantSeq(call.ctx)[k] + 1].vals, b))

\* C23: the gradient rows of the constraints listed as redundant are in no
\* block of the operator handed to the adjoint solve and not in the matrix of
\* the multiplier solve, with supplied multipliers and with recomputed ones
C23_RedundantRowsExcluded ==
    /\ \A b \in 1..Len(bwd.jac) :
          /\ OnlyNonRedundantRows(bwd.jac[b].G, b)
          /\ OnlyNonRedundantRows(bwd.jac[b].G_r, b)
    /\ \A b \in 1..Len(bwd.lstsq_G) : OnlyNonRedundantRows(bwd.lstsq_G[b], b)

\* full is the scatter of solved into the ordering of all the constraints:
\* the k-th constraint that is not redundant has the k-th entry of solved
\* after the first skip, every redundant constraint has 0
ScatteredFrom(full, solved, skip) ==
    /\ Len(full) = Len(call.ctx.constraints)
    /\ \A i \in ConstrInds(call.ctx) :
          IF i \in call.ctx.redundant_inds
          THEN full[i + 1] = 0
          ELSE \E k \in 1..Len(NonRedundantSeq(call.ctx)) :
                  /\ NonRedundantSeq(call.ctx)[k] = i
                  /\ full[i + 1] = solved[skip + k]

\* C24: the multiplier part of the adjoint solution and the recomputed
\* multipliers are scattered into the ordering of all the constraints (the
\* homogenization constraint last): the k-th non-redundant constraint has
\* the k-th solved entry and every redundant constraint has 0
C24_ScatterIntoFullOrdering ==
    /\ \A b \in 1..Len(bwd.dy_bar_2) :
          ScatteredFrom(bwd.dy_bar_2[b], bwd.adj[b], n_vars)
    /\ \A b \in 1..Len(bwd.all_mults) :
          ScatteredFrom(bwd.all_mults[b], bwd.lsq[b], 0)

C24_Witness ==
    /\ bwd.status = "grads"
    /\ call.ctx.compute_multipliers
    /\ call.ctx.redundant_inds = {0}
    /\ bwd.dy_bar_2[1] = <<0, 1>>
    /\ bwd.all_mults[1] = <<0, -2>>

\* the context of a call in which every batch element has the data of
\* element b: its x, its matrices, its certificate and its multipliers
AllAsElement(ctx, b) ==
    LET B == Len(ctx.xs)
        same(vals) == IF Len(vals) = 1 THEN vals ELSE [c \in 1..B |-> vals[b]]
    IN  [ctx EXCEPT
            !.xs = [c \in 1..B |-> ctx.xs[b]],
            !.mults = [c \in 1..B |-> ctx.mults[b]],
            !.Hs = [c \in 1..B |-> ctx.Hs[b]],
            !.objective = same(ctx.objective),
            !.constraints =
                [i \in 1..Len(ctx.constraints) |->
                    [ctx.constraints[i] EXCEPT !.vals = same(@)]]]

\* the part at leading index b of a gradient whose leading dimension is B
SliceOf(grad, b, B) ==
    LET size == Len(grad.mats) \div B
    IN  [p \in 1..size |-> grad.mats[(b - 1) * size + p]]

C26_ReturnedBasisHasZeroResidual ==
    ns.status = "returned" =>
        \A k \in 1..Len(ns.basis) : \A i \in 1..NRows(ns.A) :
            RowTimesIsZero(ns.A, ns.basis[k], i)

\* C28: constructing a layer leaves the caller's constraint list as it was,
\* so that a second layer constructed from the same list, with the same
\* objective, has the parameter slots of the first
C28_SecondLayerHasSameParams ==
    layer.status # "none" =>
        ParamList(constr_arg,
                  IF layer.objective = "param" THEN "None" ELSE "mat")
            = layer.params

\* C29: a forward call on a layer with diff_qcqp enabled completes whatever
\* keyword arguments the caller passes: a call without solver_args returns
C29_ForwardWithoutSolverArgsReturns ==
    (/\ call.status # "none"
     /\ layer.diff_qcqp
     /\ ~call.kwargs.has_solver_args) => call.status = "returned"

\* C27: a tuning loop runs a further iteration only while the squared
\* gradient norm and the outer loss of the iteration before are above their
\* tolerances, and it runs at most max_iter iterations: every iteration but
\* the last one recorded has loss > tol_loss and grad_sq > tol_grad_sq
C27_LoopStopsOnSmallLoss ==
    /\ Len(tune.iter_info) <= tune.max_iter
    /\ \A i \in 1..(Len(tune.iter_info) - 1) :
          /\ tune.iter_info[i].loss > tune.tol_loss
          /\ tune.iter_info[i].grad_sq > tune.tol_grad_sq

====
